---- MODULE Spec2Model ----
(***************************************************************************)
(* A model of the intelligent-emotion-system backend:                      *)
(*   backend/main.py        the request handlers (predict_text,            *)
(*                          predict_speech, respond, insights_summary)     *)
(*   backend/text_model.py  the text classifier wrapper                    *)
(*   backend/speech_model.py the local speech model wrapper                *)
(*                                                                         *)
(* Numbers.  Confidences, weights, scores and percentages are exact        *)
(* rationals <<n, d>>: the model computes what the code's floats compute   *)
(* up to rounding.                                                         *)
(*                                                                         *)
(* Text.  A string is a sequence of one-character strings.                 *)
(*                                                                         *)
(* Time.  A timestamp is a day number; emotion_logs is kept in insertion   *)
(* order, which is timestamp order (the clock never runs backwards).       *)
(***************************************************************************)
EXTENDS Integers, Sequences, FiniteSets, TLC

VARIABLES
    emotion_logs,   \* mongo collection emotion_logs, in insertion order
    user_memory,    \* mongo collection user_memory, in insertion order
    now,            \* the clock (datetime.utcnow()), in days
    result,         \* the last handler call: request, response, what it did;
                    \* before the call of SpecCleanup and SpecScores, its input
    _classifier,    \* text_model._classifier: None or the loaded pipeline
    _model,         \* speech_model._model: None or the loaded whisper model
    whisper,        \* speech_model.whisper: the imported module, or None
    thread,         \* the threads inside get_classifier / get_model
    disk            \* the temporary files of predict_speech left on disk

vars == <<emotion_logs, user_memory, now, result, _classifier, _model, whisper, thread, disk>>

----------------------------------------------------------------------------
(* Exact rational numbers: <<n, d>> with d > 0, in lowest terms *)

Min(a, b) == IF a <= b THEN a ELSE b
Max(a, b) == IF a >= b THEN a ELSE b
Abs(a) == IF a >= 0 THEN a ELSE 0 - a

RECURSIVE GCD(_, _)
GCD(a, b) == IF b = 0 THEN a ELSE GCD(b, a % b)

R(n, d) ==
    LET g == GCD(Abs(n), d)
    IN  IF n = 0 THEN <<0, 1>> ELSE <<n \div g, d \div g>>

RAdd(x, y) == R(x[1] * y[2] + y[1] * x[2], x[2] * y[2])
RSub(x, y) == R(x[1] * y[2] - y[1] * x[2], x[2] * y[2])
RLe(x, y) == x[1] * y[2] <= y[1] * x[2]
RGe(x, y) == RLe(y, x)
RMin(x, y) == IF RLe(x, y) THEN x ELSE y
RMax(x, y) == IF RGe(x, y) THEN x ELSE y
RAbs(x) == <<Abs(x[1]), x[2]>>
\* x / y for y > 0
RDiv(x, y) == R(x[1] * y[2], x[2] * y[1])
Zero == <<0, 1>>
Unit == <<1, 1>>

----------------------------------------------------------------------------
(* Values *)

None == "<None>"
Users == {"u1", "u2"}

\* str.lower() on the labels the model draws from
Lower(e) ==
    CASE e = "JOY" -> "joy"
      [] e = "Anger" -> "anger"
      [] OTHER -> e

\* (x or '') for a label
OrEmpty(e) == IF e = None THEN "" ELSE e

Reverse(s) == [i \in 1..Len(s) |-> s[Len(s) + 1 - i]]

Take(s, n) == SubSeq(s, 1, Min(n, Len(s)))

\* collection.find({"user_id": u})
Filter(s, u) == SelectSeq(s, LAMBDA d : d.user_id = u)

----------------------------------------------------------------------------
(* Strings *)

Whitespace == {" ", "\n", "\t"}
IsSpace(c) == c \in Whitespace

\* str.strip()
Strip(s) ==
    IF \A i \in 1..Len(s) : IsSpace(s[i]) THEN <<>>
    ELSE SubSeq(s,
                CHOOSE i \in 1..Len(s) :
                    ~IsSpace(s[i]) /\ \A j \in 1..(i - 1) : IsSpace(s[j]),
                CHOOSE i \in 1..Len(s) :
                    ~IsSpace(s[i]) /\ \A j \in (i + 1)..Len(s) : IsSpace(s[j]))

Repeat(c, n) == [i \in 1..n |-> c]

\* the k-th smallest member of a set of numbers
Nth(S, k) == CHOOSE i \in S : Cardinality({j \in S : j < i}) = k - 1

----------------------------------------------------------------------------
(* text_model.py (production mode) *)

MaxLen == 300

\* Whether s[i] lies in a match of r"(?<=[\.!?])\s+|\n+", scanning left to right:
\* every newline does, and so does the whole whitespace run that follows one of
\* . ! ? (the first alternative takes the run greedily; a match of the second
\* alternative ends before a character that is not a newline, and the character
\* before the next attempt is then a newline, so the lookbehind fails there)
InSeparator(s, i) ==
    \/ s[i] = "\n"
    \/ /\ IsSpace(s[i])
       /\ \E j \in 2..i :
              /\ s[j - 1] \in {".", "!", "?"}
              /\ \A k \in j..i : IsSpace(s[k])

\* re.split(r"(?<=[\.!?])\s+|\n+", s) for a stripped s: the pieces between the
\* matches, left to right ([""] for the empty string)
SplitSentences(s) ==
    LET starts == {i \in 1..Len(s) :
                      ~InSeparator(s, i) /\ (i = 1 \/ InSeparator(s, i - 1))}
        ends == {i \in 1..Len(s) :
                    ~InSeparator(s, i) /\ (i = Len(s) \/ InSeparator(s, i + 1))}
    IN  IF s = <<>> THEN << <<>> >>
        ELSE [k \in 1..Cardinality(starts) |->
                 SubSeq(s, Nth(starts, k), Nth(ends, k))]

\* the loop of lines 52-62
RECURSIVE PackChunks(_, _, _, _)
PackChunks(sentences, buf, chunks, max_len) ==
    IF sentences = <<>>
    THEN IF buf # <<>> THEN Append(chunks, buf) ELSE chunks
    ELSE LET sen == Head(sentences)
             rest == Tail(sentences)
         IN  IF sen = <<>> THEN PackChunks(rest, buf, chunks, max_len)
             ELSE IF Len(buf) + Len(sen) + 1 <= max_len
             THEN PackChunks(rest, Strip(buf \o <<" ">> \o sen), chunks, max_len)
             ELSE PackChunks(rest, sen,
                             IF buf # <<>> THEN Append(chunks, buf) ELSE chunks,
                             max_len)

_split_text(text, max_len) ==
    LET chunks == PackChunks(SplitSentences(Strip(text)),
                             <<>>, <<>>, max_len)
    IN  IF chunks # <<>> THEN chunks ELSE <<text>>

\* totals[lbl] = totals.get(lbl, 0.0) + sc, the dict kept as a list of
\* <<label, total>> in insertion order
AddScore(totals, lbl, sc) ==
    IF \E i \in 1..Len(totals) : totals[i][1] = lbl
    THEN [i \in 1..Len(totals) |->
             IF totals[i][1] = lbl THEN <<lbl, RAdd(totals[i][2], sc)>> ELSE totals[i]]
    ELSE Append(totals, <<lbl, sc>>)

RECURSIVE AddItem(_, _)
AddItem(totals, item) ==
    IF item = <<>> THEN totals
    ELSE AddItem(AddScore(totals, Head(item).label, Head(item).score), Tail(item))

\* the loops of lines 86-91 and 114-118 over the classifier's per-chunk output
RECURSIVE Totals(_, _)
Totals(all_scores, totals) ==
    IF all_scores = <<>> THEN totals
    ELSE Totals(Tail(all_scores), AddItem(totals, Head(all_scores)))

RECURSIVE SumValues(_)
SumValues(totals) ==
    IF totals = <<>> THEN Zero ELSE RAdd(Head(totals)[2], SumValues(Tail(totals)))

\* sum(totals.values()) or 1.0
TotalSum(totals) == IF SumValues(totals) = Zero THEN Unit ELSE SumValues(totals)

\* max(items, key=lambda x: x[1]): the first item with the greatest value
MaxItem(items) ==
    LET i == CHOOSE k \in 1..Len(items) :
                 /\ \A j \in 1..Len(items) : RLe(items[j][2], items[k][2])
                 /\ \A j \in 1..(k - 1) : items[j][2] # items[k][2]
    IN  items[i]

(* The classifier's answers to one call of predict / predict_with_scores:       *)
(*   env.load  whether pipeline(...) succeeds, should the call construct it      *)
(*   env.top   clf(chunk): [raises, label, score]                                *)
(*   env.all   clf(chunks, return_all_scores=True): [raises, items], one item    *)
(*             (a list of [label, score]) per chunk                              *)

\* what a call gives back: the returned tuple or the raised exception, the
\* module's _classifier afterwards, and how often it called pipeline() and clf()
Returned(label, confidence, scores, clf, pipeline, classify) ==
    [raised |-> FALSE, label |-> label, confidence |-> confidence, scores |-> scores,
     clf |-> clf, pipeline |-> pipeline, classify |-> classify]
Raised(clf, pipeline, classify) ==
    [raised |-> TRUE, label |-> None, confidence |-> Zero, scores |-> <<>>,
     clf |-> clf, pipeline |-> pipeline, classify |-> classify]

\* get_classifier(), run without interruption: [raised, clf, pipeline]
get_classifier(clf, load) ==
    IF clf # None THEN [raised |-> FALSE, clf |-> clf, pipeline |-> 0]
    ELSE IF load THEN [raised |-> FALSE, clf |-> "pipeline", pipeline |-> 1]
    ELSE [raised |-> TRUE, clf |-> None, pipeline |-> 1]

\* predict(text), lines 65-100
predict(text, clf, env) ==
    LET t == Strip(text)
        got == get_classifier(clf, env.load)
        chunks == _split_text(t, MaxLen)
        totals == Totals(env.all.items, <<>>)
        best == MaxItem(totals)
    IN  IF t = <<>> THEN Returned("neutral", <<3, 5>>, <<>>, clf, 0, 0)
        ELSE IF got.raised THEN Raised(got.clf, got.pipeline, 0)
        ELSE IF Len(chunks) = 1 /\ Len(chunks[1]) <= MaxLen
        THEN IF env.top.raises THEN Raised(got.clf, got.pipeline, 1)
             ELSE Returned(env.top.label, env.top.score, <<>>, got.clf, got.pipeline, 1)
        ELSE IF env.all.raises THEN Raised(got.clf, got.pipeline, 1)
        ELSE IF totals = <<>>
        THEN Returned("neutral", <<3, 5>>, <<>>, got.clf, got.pipeline, 1)
        ELSE Returned(best[1], RDiv(best[2], TotalSum(totals)), <<>>,
                      got.clf, got.pipeline, 1)

\* probs = {k: v / total_sum for k, v in totals.items()}
Probs(totals) ==
    [i \in 1..Len(totals) |-> <<totals[i][1], RDiv(totals[i][2], TotalSum(totals))>>]

\* predict_with_scores(text), lines 102-122; max() of an empty dict raises
predict_with_scores(text, clf, env) ==
    LET t == Strip(text)
        got == get_classifier(clf, env.load)
        totals == Totals(env.all.items, <<>>)
        probs == Probs(totals)
        best == MaxItem(probs)
    IN  IF t = <<>>
        THEN Returned("neutral", <<3, 5>>, <<<<"neutral", Unit>>>>, clf, 0, 0)
        ELSE IF got.raised THEN Raised(got.clf, got.pipeline, 0)
        ELSE IF env.all.raises THEN Raised(got.clf, got.pipeline, 1)
        ELSE IF probs = <<>> THEN Raised(got.clf, got.pipeline, 1)
        ELSE Returned(best[1], best[2], probs, got.clf, got.pipeline, 1)

----------------------------------------------------------------------------
(* predict_text: main.py 64-94 *)

TextLog(u, text, label, confidence) ==
    [user_id |-> u, input_type |-> None, message |-> text,
     detected_emotion |-> label, confidence |-> confidence, timestamp |-> now]

\* the mutant: the failure of insert_one not caught
InsertLogRaising(log, insertOk) ==
    [raised |-> ~insertOk,
     logs |-> IF insertOk THEN Append(emotion_logs, log) ELSE emotion_logs]

\* try: emotion_logs.insert_one(log) / except Exception: pass (lines 74-85 and
\* 189-204); insertOk is whether insert_one succeeds
InsertLog(log, insertOk) ==
    [raised |-> FALSE,
     logs |-> IF insertOk THEN Append(emotion_logs, log) ELSE emotion_logs]

\* the handler's outcome: the result (the request: text, all_scores; the response;
\* and what the call did: insert, pipeline, classify), and _classifier and
\* emotion_logs afterwards
predict_text(u, text, all_scores, env, insertOk) ==
    LET p == IF all_scores THEN predict_with_scores(text, _classifier, env)
             ELSE predict(text, _classifier, env)
        ins == InsertLog(TextLog(u, text, p.label, p.confidence), insertOk)
    IN  IF text = <<>>
        THEN [result |-> [op |-> "predict_text", status |-> 400,
                          detail |-> "text required", user_id |-> u,
                          text |-> text, all_scores |-> all_scores,
                          insert |-> "none", pipeline |-> 0, classify |-> 0],
              clf |-> _classifier, logs |-> emotion_logs]
        ELSE IF p.raised \/ ins.raised
        THEN [result |-> [op |-> "predict_text", status |-> 500,
                          detail |-> "Internal Server Error", user_id |-> u,
                          text |-> text, all_scores |-> all_scores,
                          insert |-> "none",
                          pipeline |-> p.pipeline, classify |-> p.classify],
              clf |-> p.clf, logs |-> IF p.raised THEN emotion_logs ELSE ins.logs]
        ELSE [result |-> [op |-> "predict_text", status |-> 200, user_id |-> u,
                          text |-> text, all_scores |-> all_scores,
                          emotion |-> p.label, confidence |-> p.confidence,
                          scores |-> IF all_scores THEN p.scores ELSE <<>>,
                          insert |-> IF insertOk THEN "ok" ELSE "failed",
                          pipeline |-> p.pipeline, classify |-> p.classify],
              clf |-> p.clf, logs |-> ins.logs]

PredictText(u, text, all_scores, env, insertOk) ==
    \E out \in {predict_text(u, text, all_scores, env, insertOk)} :
        /\ result' = out.result
        /\ _classifier' = out.clf
        /\ emotion_logs' = out.logs
        /\ UNCHANGED <<user_memory, now, _model, whisper, thread, disk>>

----------------------------------------------------------------------------
(* predict_speech: main.py 97-228, and speech_model.py *)

\* str.split(): the maximal runs of characters that are not whitespace
SplitWords(s) ==
    LET starts == {i \in 1..Len(s) : ~IsSpace(s[i]) /\ (i = 1 \/ IsSpace(s[i - 1]))}
        ends == {i \in 1..Len(s) : ~IsSpace(s[i]) /\ (i = Len(s) \/ IsSpace(s[i + 1]))}
    IN  [k \in 1..Cardinality(starts) |-> SubSeq(s, Nth(starts, k), Nth(ends, k))]

\* sep.join(words)
RECURSIVE Join(_, _)
Join(words, sep) ==
    IF words = <<>> THEN <<>>
    ELSE IF Len(words) = 1 THEN words[1]
    ELSE words[1] \o sep \o Join(Tail(words), sep)

\* s.replace(old, new) from index i on: the occurrences of old, leftmost first,
\* none overlapping another
RECURSIVE ReplaceFrom(_, _, _, _)
ReplaceFrom(s, i, old, new) ==
    IF i > Len(s) THEN <<>>
    ELSE IF i + Len(old) - 1 <= Len(s) /\ SubSeq(s, i, i + Len(old) - 1) = old
    THEN new \o ReplaceFrom(s, i + Len(old), old, new)
    ELSE <<s[i]>> \o ReplaceFrom(s, i + 1, old, new)

Replace(s, old, new) == ReplaceFrom(s, 1, old, new)

Fillers ==
    << <<"u", "h">>, <<"u", "m", "m">>, <<"u", "m">>, <<"e", "r">>, <<"a", "h">>,
       <<"l", "i", "k", "e">>, <<"y", "o", "u", " ", "k", "n", "o", "w">> >>

\* t.replace(f + ' ', ' ').replace(' ' + f + ' ', ' ').replace(' ' + f, ' ')
StripFiller(t, f) ==
    Replace(Replace(Replace(t, f \o <<" ">>, <<" ">>),
                    <<" ">> \o f \o <<" ">>, <<" ">>),
            <<" ">> \o f, <<" ">>)

RECURSIVE StripFillers(_, _)
StripFillers(t, fillers) ==
    IF fillers = <<>> THEN t
    ELSE StripFillers(StripFiller(t, Head(fillers)), Tail(fillers))

\* lines 171-176
Cleanup(transcript) ==
    Strip(StripFillers(Join(SplitWords(transcript), <<" ">>), Fillers))

\* get_model(), run without interruption: [raised, mdl, load_model]
get_model(mdl, load) ==
    IF mdl # None THEN [raised |-> FALSE, mdl |-> mdl, load_model |-> 0]
    ELSE IF whisper = None THEN [raised |-> TRUE, mdl |-> None, load_model |-> 0]
    ELSE IF load THEN [raised |-> FALSE, mdl |-> "whisper", load_model |-> 1]
    ELSE [raised |-> TRUE, mdl |-> None, load_model |-> 1]

(* What the world answers to one predict_speech call:                        *)
(*   sp.audio_empty  the upload has no bytes                                  *)
(*   sp.api_key      OPENAI_API_KEY is set                                    *)
(*   sp.remote       the remote transcription: [raises, text]                 *)
(*   sp.ffmpeg_ok    the ffmpeg conversion exits 0                            *)
(*   sp.local        the local model: [load, raises, text]                    *)
(*   sp.scores, sp.single  the classifier's answers to predict_with_scores    *)
(*                   and to the predict it falls back to                      *)
(*   sp.insert_ok    emotion_logs.insert_one succeeds                         *)

\* the remote path, lines 134-146: the transcript, "" when it failed or was skipped
RemoteTranscript(sp) ==
    IF sp.api_key /\ ~sp.remote.raises THEN Strip(sp.remote.text) ELSE <<>>

\* the local path, lines 147-167 with transcribe(): [ok, transcript, mdl, transcribed]
LocalTranscript(sp) ==
    LET got == get_model(_model, sp.local.load)
    IN  IF ~sp.files.write \/ ~sp.ffmpeg_ok
        THEN [ok |-> FALSE, transcript |-> <<>>, mdl |-> _model, transcribed |-> FALSE]
        ELSE IF got.raised
        THEN [ok |-> FALSE, transcript |-> <<>>, mdl |-> got.mdl, transcribed |-> FALSE]
        ELSE IF sp.local.raises
        THEN [ok |-> FALSE, transcript |-> <<>>, mdl |-> got.mdl, transcribed |-> TRUE]
        ELSE [ok |-> TRUE, transcript |-> Strip(sp.local.text), mdl |-> got.mdl,
              transcribed |-> TRUE]

(* The temporary files of the local path: "tmp_in", which NamedTemporaryFile  *)
(* creates with delete=False, and "wav", ffmpeg's output.                     *)
(*   sp.files.write       tmp_in.write(audio_bytes) succeeds                  *)
(*   sp.files.partial     a failing ffmpeg leaves an output file behind       *)
(*   sp.files.remove_in   os.remove(tmp_in_path) succeeds                     *)
(*   sp.files.remove_wav  os.remove(conv_path) succeeds                       *)
FilesOk == [write |-> TRUE, partial |-> FALSE, remove_in |-> TRUE, remove_wav |-> TRUE]

\* os.path.exists(conv_path) in the finally block
WavExists(sp) == sp.ffmpeg_ok \/ sp.files.partial

\* the files the local path leaves on disk.  A failing write raises before the
\* try statement of line 153; in the finally block (lines 162-167) a failing
\* os.remove(tmp_in_path) skips os.remove(conv_path).
TempFilesLeft(sp) ==
    IF ~sp.files.write THEN {"tmp_in"}
    ELSE IF ~sp.files.remove_in
    THEN {"tmp_in"} \cup (IF WavExists(sp) THEN {"wav"} ELSE {})
    ELSE IF WavExists(sp) /\ ~sp.files.remove_wav THEN {"wav"}
    ELSE {}

\* the mutant: the local path run first, the remote one only when it gave nothing
TranscribeLocalFirst(sp) ==
    LET remote == RemoteTranscript(sp)
        local == LocalTranscript(sp)
    IN  IF local.ok /\ local.transcript # <<>>
        THEN [transcript |-> local.transcript, used_fallback |-> TRUE,
              mdl |-> local.mdl, remote |-> FALSE, local |-> TRUE,
              transcribed |-> local.transcribed, files |-> TempFilesLeft(sp)]
        ELSE [transcript |-> remote, used_fallback |-> FALSE, mdl |-> local.mdl,
              remote |-> sp.api_key, local |-> TRUE,
              transcribed |-> local.transcribed, files |-> TempFilesLeft(sp)]

\* lines 129-169: [transcript, used_fallback, mdl, remote, local, transcribed, files]
Transcribe(sp) ==
    LET remote == RemoteTranscript(sp)
        local == LocalTranscript(sp)
    IN  IF remote # <<>>
        THEN [transcript |-> remote, used_fallback |-> FALSE, mdl |-> _model,
              remote |-> TRUE, local |-> FALSE, transcribed |-> FALSE, files |-> {}]
        ELSE [transcript |-> local.transcript, used_fallback |-> local.ok,
              mdl |-> local.mdl, remote |-> sp.api_key, local |-> TRUE,
              transcribed |-> local.transcribed, files |-> TempFilesLeft(sp)]

\* lines 181-186: predict_with_scores, and predict when it raises
Classify(text, sp) ==
    LET first == predict_with_scores(text, _classifier, sp.scores)
        second == predict(text, first.clf, sp.single)
    IN  IF ~first.raised THEN first
        ELSE [second EXCEPT !.pipeline = first.pipeline + second.pipeline,
                            !.classify = first.classify + second.classify]

SpeechLog(u, transcript, label, confidence) ==
    [user_id |-> u, input_type |-> "speech", message |-> transcript,
     detected_emotion |-> label, confidence |-> confidence, timestamp |-> now]

\* the mutant: an empty transcript let through to the classifier
EmptyTranscriptIgnored(transcript) == FALSE

\* if not transcript (line 178)
EmptyTranscript(transcript) == transcript = <<>>

\* the handler's outcome: the result (the request: audio_empty; the response; the
\* transcript before the cleanup: raw; and what the call did: insert, pipeline,
\* classify, remote, local), and _classifier, _model and emotion_logs afterwards
predict_speech(u, sp) ==
    LET tr == Transcribe(sp)
        transcript == Cleanup(tr.transcript)
        p == Classify(transcript, sp)
        ins == InsertLog(SpeechLog(u, transcript, p.label, p.confidence), sp.insert_ok)
    IN  IF sp.audio_empty
        THEN [result |-> [op |-> "predict_speech", status |-> 400,
                          detail |-> "empty audio upload", user_id |-> u,
                          audio_empty |-> TRUE, raw |-> <<>>,
                          insert |-> "none", pipeline |-> 0, classify |-> 0,
                          remote |-> FALSE, local |-> FALSE],
              clf |-> _classifier, mdl |-> _model, logs |-> emotion_logs, files |-> {}]
        ELSE IF EmptyTranscript(transcript)
        THEN [result |-> [op |-> "predict_speech", status |-> 422,
                          detail |-> "transcription empty; please try again with clearer audio",
                          user_id |-> u,
                          audio_empty |-> FALSE, raw |-> tr.transcript,
                          insert |-> "none", pipeline |-> 0, classify |-> 0,
                          remote |-> tr.remote, local |-> tr.local],
              clf |-> _classifier, mdl |-> tr.mdl, logs |-> emotion_logs,
              files |-> tr.files]
        ELSE IF p.raised \/ ins.raised
        THEN [result |-> [op |-> "predict_speech", status |-> 500,
                          detail |-> "str(e)", user_id |-> u,
                          audio_empty |-> FALSE, raw |-> tr.transcript,
                          insert |-> "none",
                          pipeline |-> p.pipeline, classify |-> p.classify,
                          remote |-> tr.remote, local |-> tr.local],
              clf |-> p.clf, mdl |-> tr.mdl,
              logs |-> IF p.raised THEN emotion_logs ELSE ins.logs, files |-> tr.files]
        ELSE [result |-> [op |-> "predict_speech", status |-> 200, user_id |-> u,
                          audio_empty |-> FALSE, raw |-> tr.transcript,
                          emotion |-> p.label, confidence |-> p.confidence,
                          transcript |-> transcript, scores |-> p.scores,
                          used_fallback |-> tr.used_fallback,
                          insert |-> IF sp.insert_ok THEN "ok" ELSE "failed",
                          pipeline |-> p.pipeline, classify |-> p.classify,
                          remote |-> tr.remote, local |-> tr.local],
              clf |-> p.clf, mdl |-> tr.mdl, logs |-> ins.logs, files |-> tr.files]

PredictSpeech(u, sp) ==
    \E out \in {predict_speech(u, sp)} :
        /\ result' = out.result
        /\ _classifier' = out.clf
        /\ _model' = out.mdl
        /\ emotion_logs' = out.logs
        /\ disk' = disk \cup out.files
        /\ UNCHANGED <<user_memory, now, whisper, thread>>

----------------------------------------------------------------------------
(* respond: main.py 231-305 *)

HistoryLimit == 30

RespondPositive == {"joy", "love", "gratitude", "relief", "optimism"}
RespondNegative == {"sadness", "anger", "fear", "disgust", "frustration",
                    "boredom", "stress", "stressed"}

\* emotion_logs.find({"user_id": u}).sort("timestamp", -1).limit(30): newest first
RecentDocs(u) == Take(Reverse(Filter(emotion_logs, u)), HistoryLimit)

RespondBucket(e) ==
    IF e \in RespondPositive THEN "positive"
    ELSE IF e \in RespondNegative THEN "negative"
    ELSE "neutral"

\* c = float(d.get('confidence') or 0.5): a stored 0.0 is falsy, as a missing one is
LogConfidence(d) == IF d.confidence = Zero THEN <<1, 2>> ELSE d.confidence

\* w = max(0.2, min(c, 1.0))
LogWeight(d) == RMax(<<1, 5>>, RMin(LogConfidence(d), Unit))

\* the sum of a sequence of rationals, taken value by value
RECURSIVE SumByValue(_, _)
SumByValue(ws, vals) ==
    IF vals = {} THEN Zero
    ELSE LET w == CHOOSE x \in vals : TRUE
             n == Cardinality({i \in 1..Len(ws) : ws[i] = w})
         IN  RAdd(R(w[1] * n, w[2]), SumByValue(ws, vals \ {w}))

SumSeq(ws) == SumByValue(ws, {ws[i] : i \in 1..Len(ws)})

\* counts[b] after the loop of lines 250-259
BucketWeight(docs, b) ==
    SumSeq(SubSeq([i \in 1..Len(docs) |->
                      IF RespondBucket(Lower(OrEmpty(docs[i].detected_emotion))) = b
                      THEN LogWeight(docs[i]) ELSE Zero],
                  1, Len(docs)))

RespondCounts(docs) ==
    [positive |-> BucketWeight(docs, "positive"),
     negative |-> BucketWeight(docs, "negative"),
     neutral |-> BucketWeight(docs, "neutral")]

\* lines 261-263 and 290
RespondStats(docs) ==
    LET counts == RespondCounts(docs)
        total == RAdd(RAdd(counts.positive, counts.negative), counts.neutral)
    IN  [counts |-> counts, total |-> total,
         pos_pct |-> IF total # Zero THEN RDiv(counts.positive, total) ELSE Zero,
         neg_pct |-> IF total # Zero THEN RDiv(counts.negative, total) ELSE Zero]

\* the mutant: the balanced-mix rule tried before the most recent label
RespondReasonMixedFirst(docs, stats) ==
    LET pos == stats.pos_pct
        neg == stats.neg_pct
        last == Lower(OrEmpty(docs[1].detected_emotion))
    IN  IF RGe(neg, <<3, 5>>) THEN "mostly-negative-history"
        ELSE IF RGe(pos, <<3, 5>>) THEN "mostly-positive-history"
        ELSE IF /\ RLe(RAbs(RSub(pos, neg)), <<1, 5>>)
                /\ RGe(RAdd(pos, neg), <<2, 5>>) THEN "mixed"
        ELSE IF last \in RespondPositive THEN "recent-positive"
        ELSE IF last \in RespondNegative THEN "recent-negative"
        ELSE "neutral"

\* the rule chain of lines 266-288
RespondReason(docs, stats) ==
    LET pos == stats.pos_pct
        neg == stats.neg_pct
        last == Lower(OrEmpty(docs[1].detected_emotion))
    IN  IF RGe(neg, <<3, 5>>) THEN "mostly-negative-history"
        ELSE IF RGe(pos, <<3, 5>>) THEN "mostly-positive-history"
        ELSE IF last \in RespondPositive THEN "recent-positive"
        ELSE IF last \in RespondNegative THEN "recent-negative"
        ELSE IF /\ RLe(RAbs(RSub(pos, neg)), <<1, 5>>)
                /\ RGe(RAdd(pos, neg), <<2, 5>>) THEN "mixed"
        ELSE "neutral"

\* the mutant: the alert raised from the mostly-negative threshold on
AlertDueAtMostly(stats) == RGe(stats.neg_pct, <<3, 5>>)

\* if neg_pct >= 0.8
AlertDue(stats) == RGe(stats.neg_pct, <<4, 5>>)

MoodAlert(u) ==
    [user_id |-> u, memory_type |-> "mood_alert", importance |-> "high",
     created_at |-> now]

\* the whole handler; memoryWriteOk is whether user_memory.insert_one succeeds
Respond(u, memoryWriteOk) ==
    \E docs \in {RecentDocs(u)} : \E stats \in {RespondStats(docs)} :
        /\ UNCHANGED <<emotion_logs, now, _classifier, _model, whisper, thread, disk>>
        /\ IF u = ""
           THEN /\ result' = [op |-> "respond", user_id |-> u, status |-> 400,
                              detail |-> "user_id required"]
                /\ UNCHANGED user_memory
           ELSE IF docs = <<>>
           THEN /\ result' = [op |-> "respond", user_id |-> u, status |-> 200,
                              reason |-> "no-history", stats |-> <<>>,
                              memory_write |-> "none"]
                /\ UNCHANGED user_memory
           ELSE /\ result' = [op |-> "respond", user_id |-> u, status |-> 200,
                              reason |-> RespondReason(docs, stats),
                              stats |-> stats,
                              memory_write |->
                                  IF ~AlertDue(stats) THEN "none"
                                  ELSE IF memoryWriteOk THEN "ok" ELSE "failed"]
                /\ user_memory' =
                       IF AlertDue(stats) /\ memoryWriteOk
                       THEN Append(user_memory, MoodAlert(u))
                       ELSE user_memory

----------------------------------------------------------------------------
(* insights_summary: main.py 426-457 *)

InsightsLimit == 1000

InsightsPositive == {"joy", "love", "gratitude", "relief", "optimism", "happy"}
InsightsNegative == {"sadness", "anger", "fear", "disgust", "frustration",
                     "boredom", "stress", "stressed", "sad", "angry"}

\* find({"user_id": u, "timestamp": {"$gte": since}}).sort("timestamp", -1).limit(1000)
WindowDocs(u, window_days) ==
    LET since == now - Max(1, window_days)
    IN  Take(Reverse(SelectSeq(emotion_logs,
                               LAMBDA d : d.user_id = u /\ d.timestamp >= since)),
             InsightsLimit)

\* e = (d.get('detected_emotion') or '').lower() or 'unknown'
InsightsLabel(d) ==
    IF Lower(OrEmpty(d.detected_emotion)) = "" THEN "unknown"
    ELSE Lower(OrEmpty(d.detected_emotion))

\* counts, the dict kept as a list of <<label, count>> in insertion order
InsightsCounts(docs) ==
    LET firsts == {i \in 1..Len(docs) :
                      \A j \in 1..(i - 1) : InsightsLabel(docs[j]) # InsightsLabel(docs[i])}
    IN  [k \in 1..Cardinality(firsts) |->
            LET e == InsightsLabel(docs[Nth(firsts, k)])
            IN  <<e, Cardinality({i \in 1..Len(docs) : InsightsLabel(docs[i]) = e})>>]

\* max(counts.items(), key=lambda x: x[1])[0]: the first label with the greatest count
TopEmotion(counts) ==
    IF counts = <<>> THEN None
    ELSE counts[CHOOSE k \in 1..Len(counts) :
                    /\ \A j \in 1..Len(counts) : counts[j][2] <= counts[k][2]
                    /\ \A j \in 1..(k - 1) : counts[j][2] < counts[k][2]][1]

InsightsBucket(e) ==
    IF e \in InsightsPositive THEN "positive"
    ELSE IF e \in InsightsNegative THEN "negative"
    ELSE "neutral"

\* mix_counts[b] after the loop of lines 446-452
MixCount(docs, b) ==
    Cardinality({i \in 1..Len(docs) : InsightsBucket(InsightsLabel(docs[i])) = b})

\* the whole handler; findOk is whether the query succeeds
InsightsSummary(u, window_days, findOk) ==
    \E docs \in {WindowDocs(u, window_days)} :
        /\ UNCHANGED <<emotion_logs, user_memory, now, _classifier, _model, whisper, thread, disk>>
        /\ IF ~findOk
           THEN result' = [op |-> "insights_summary", status |-> 500, user_id |-> u,
                           window_days |-> window_days]
           ELSE result' =
                    [op |-> "insights_summary", status |-> 200, user_id |-> u,
                     window_days |-> window_days,
                     total |-> Len(docs),
                     top_emotion |-> TopEmotion(InsightsCounts(docs)),
                     counts |-> InsightsCounts(docs),
                     mix_counts |-> [positive |-> MixCount(docs, "positive"),
                                     negative |-> MixCount(docs, "negative"),
                                     neutral |-> MixCount(docs, "neutral")],
                     mix |-> [positive |-> IF Len(docs) # 0
                                           THEN R(MixCount(docs, "positive"), Len(docs))
                                           ELSE Zero,
                              negative |-> IF Len(docs) # 0
                                           THEN R(MixCount(docs, "negative"), Len(docs))
                                           ELSE Zero,
                              neutral |-> IF Len(docs) # 0
                                          THEN R(MixCount(docs, "neutral"), Len(docs))
                                          ELSE Zero]]

----------------------------------------------------------------------------
(* The clock *)

MaxDay == 2

Tick ==
    /\ now < MaxDay
    /\ now' = now + 1
    /\ UNCHANGED <<emotion_logs, user_memory, result, _classifier, _model, whisper, thread, disk>>

NoResult == [op |-> "none", status |-> 0]

----------------------------------------------------------------------------
(* SpecRespond: respond over stored histories.  A history starts as a block *)
(* of equal logs of one user, stored the day before with confidence 0.05,   *)
(* and grows by predict_text calls of user u1.                              *)

MaxNewLogs == 2
MaxAlerts == 1

\* text short enough for predict's single pass
Hi == <<"h", "i">>

RespondLabels == {"joy", "Anger", "neutral"}
RespondScores == {Zero, R(3, 2)}
BlockSizes == {0, 1, HistoryLimit - 1, HistoryLimit}

SingleEnv(label, score) ==
    [load |-> TRUE, top |-> [raises |-> FALSE, label |-> label, score |-> score],
     all |-> [raises |-> FALSE, items |-> <<>>]]

InitRespond ==
    /\ now = 1
    /\ \E n \in BlockSizes, u \in Users, label \in {"anger", "neutral"} :
           emotion_logs = [i \in 1..n |->
               [user_id |-> u, input_type |-> None, message |-> Hi,
                detected_emotion |-> label, confidence |-> R(1, 20), timestamp |-> 0]]
    /\ user_memory = <<>>
    /\ result = NoResult
    /\ _classifier = None
    /\ _model = None
    /\ whisper = "module"
    /\ thread = <<>>
    /\ disk = {}

NewLogs == Len(SelectSeq(emotion_logs, LAMBDA d : d.timestamp = now))

NextRespond ==
    \/ \E label \in RespondLabels, score \in RespondScores :
           /\ NewLogs < MaxNewLogs
           /\ PredictText("u1", Hi, FALSE, SingleEnv(label, score), TRUE)
    \/ \E u \in Users \cup {""}, memoryWriteOk \in BOOLEAN :
           /\ Len(user_memory) < MaxAlerts
           /\ Respond(u, memoryWriteOk)

SpecRespond == InitRespond /\ [][NextRespond]_vars

----------------------------------------------------------------------------
(* Claims about respond *)

\* the logs of user u, oldest first, and the at most 30 newest of them
LogsOf(u) == SelectSeq(emotion_logs, LAMBDA d : d.user_id = u)
Newest30(u) ==
    LET mine == LogsOf(u)
    IN  SubSeq(mine, Max(1, Len(mine) - 29), Len(mine))
LabelOf(d) == Lower(OrEmpty(d.detected_emotion))
WeightIn(logs, labels) ==
    SumSeq(SubSeq([i \in 1..Len(logs) |->
                      IF LabelOf(logs[i]) \in labels THEN LogWeight(logs[i]) ELSE Zero],
                  1, Len(logs)))
Responded == result.op = "respond" /\ result.status = 200
WithHistory == Responded /\ result.reason # "no-history"

\* C1: respond returns the reason of the first matching rule, in the order
\* no-history, mostly-negative-history (negative_pct >= 0.6), mostly-positive-history
\* (positive_pct >= 0.6), recent-positive, recent-negative (label of the newest log),
\* mixed (|positive_pct - negative_pct| <= 0.2 and their sum >= 0.4), neutral; the
\* percentages are those of the user's 30 newest logs.
C1_RuleOrder ==
    Responded =>
        LET logs == Newest30(result.user_id)
            total == WeightIn(logs, {LabelOf(logs[i]) : i \in 1..Len(logs)})
            pos == RDiv(WeightIn(logs, RespondPositive), total)
            neg == RDiv(WeightIn(logs, RespondNegative), total)
            last == LabelOf(logs[Len(logs)])
        IN  IF logs = <<>> THEN result.reason = "no-history"
            ELSE /\ result.stats.pos_pct = pos
                 /\ result.stats.neg_pct = neg
                 /\ result.reason =
                        IF RGe(neg, <<3, 5>>) THEN "mostly-negative-history"
                        ELSE IF RGe(pos, <<3, 5>>) THEN "mostly-positive-history"
                        ELSE IF last \in RespondPositive THEN "recent-positive"
                        ELSE IF last \in RespondNegative THEN "recent-negative"
                        ELSE IF /\ RLe(RAbs(RSub(pos, neg)), <<1, 5>>)
                                /\ RGe(RAdd(pos, neg), <<2, 5>>) THEN "mixed"
                        ELSE "neutral"

\* respond fell through to the most recent label for a user with more than 30 logs
C1_Witness ==
    /\ Responded
    /\ result.reason = "recent-negative"
    /\ Len(LogsOf(result.user_id)) > HistoryLimit

\* C2: a respond call appends one mood_alert record of importance high for the user
\* when negative_pct >= 0.8 and the write succeeds, and only then; otherwise
\* user_memory is unchanged; when the write fails the response is the one of a
\* successful write: status 200, the reason and the stats of the history.
C2_Alert ==
    [][result'.op = "respond" =>
          LET high == /\ result'.status = 200
                      /\ result'.reason # "no-history"
                      /\ RGe(result'.stats.neg_pct, <<4, 5>>)
              grown == /\ Len(user_memory') = Len(user_memory) + 1
                       /\ SubSeq(user_memory', 1, Len(user_memory)) = user_memory
                       /\ LET m == user_memory'[Len(user_memory')]
                          IN  /\ m.user_id = result'.user_id
                              /\ m.memory_type = "mood_alert"
                              /\ m.importance = "high"
          IN  /\ (user_memory' # user_memory) => (high /\ grown)
              /\ (high /\ result'.memory_write = "ok") => grown
              /\ ~high => (user_memory' = user_memory)
              /\ (high /\ result'.memory_write = "failed") =>
                     /\ user_memory' = user_memory
                     /\ result'.status = 200
                     /\ result'.reason = "mostly-negative-history"
                     /\ result'.stats = RespondStats(Newest30(result'.user_id))
    ]_vars

\* a respond call whose mood-alert write failed
C2_Witness ==
    /\ Responded
    /\ result.memory_write = "failed"
    /\ user_memory = <<>>

\* C3: every log contributes its confidence clamped to [0.2, 1.0] to its bucket
C3_ClampedWeight ==
    WithHistory =>
        LET logs == Newest30(result.user_id)
            Clamped(labels) ==
                SumSeq(SubSeq([i \in 1..Len(logs) |->
                                  IF LabelOf(logs[i]) \in labels
                                  THEN RMin(Unit, RMax(<<1, 5>>, logs[i].confidence))
                                  ELSE Zero],
                              1, Len(logs)))
        IN  /\ result.stats.counts.positive = Clamped(RespondPositive)
            /\ result.stats.counts.negative = Clamped(RespondNegative)
            /\ result.stats.total =
                   Clamped({LabelOf(logs[i]) : i \in 1..Len(logs)})

----------------------------------------------------------------------------
(* SpecInsights: insights_summary over logs written on several days *)

MaxInsightLogs == 2

InsightsLabels == {"joy", "sad", "Anger", None}

InitInsights ==
    /\ now = 0
    /\ emotion_logs = <<>>
    /\ user_memory = <<>>
    /\ result = NoResult
    /\ _classifier = None
    /\ _model = None
    /\ whisper = "module"
    /\ thread = <<>>
    /\ disk = {}

NextInsights ==
    \/ Tick
    \/ \E u \in Users, label \in InsightsLabels :
           /\ Len(emotion_logs) < MaxInsightLogs
           /\ PredictText(u, Hi, FALSE, SingleEnv(label, R(9, 10)), TRUE)
    \/ \E u \in Users, window_days \in {0, 2}, findOk \in BOOLEAN :
           InsightsSummary(u, window_days, findOk)

SpecInsights == InitInsights /\ [][NextInsights]_vars

\* the logs insights_summary(u, window_days) reads: the user's, of the window
InWindow(u, window_days) ==
    SelectSeq(emotion_logs,
              LAMBDA d : d.user_id = u /\ d.timestamp >= now - Max(1, window_days))
Summarised == result.op = "insights_summary" /\ result.status = 200

\* C9: insights_summary counts every label in the bucket respond weights it into,
\* and mix is the bucket's unweighted count divided by total (0 when total is 0)
C9_SameBuckets ==
    Summarised =>
        LET logs == InWindow(result.user_id, result.window_days)
            InBucket(b) == Cardinality({i \in 1..Len(logs) :
                                           RespondBucket(LabelOf(logs[i])) = b})
        IN  /\ result.total = Len(logs)
            /\ \A b \in {"positive", "negative", "neutral"} :
                   /\ result.mix_counts[b] = InBucket(b)
                   /\ result.mix[b] = IF result.total = 0 THEN Zero
                                      ELSE R(InBucket(b), result.total)

----------------------------------------------------------------------------
(* SpecHandlers: predict_text and predict_speech under every outcome of the   *)
(* transcription, the classifier and the log insert.                          *)

MaxLogs == 1

UhUm == <<"u", "h", " ", "u", "m">>
UmHi == <<" ", "u", "m", " ", "h", "i">>

Texts == {<<>>, <<" ">>, Hi}

Env(load, raises, label, score, items) ==
    [load |-> load, top |-> [raises |-> raises, label |-> label, score |-> score],
     all |-> [raises |-> raises, items |-> items]]

EnvOk ==
    Env(TRUE, FALSE, "joy", R(9, 10),
        << << [label |-> "joy", score |-> R(7, 10)],
              [label |-> "sadness", score |-> R(3, 10)] >> >>)
EnvOver == Env(TRUE, FALSE, None, R(3, 2), << << [label |-> None, score |-> R(3, 2)] >> >>)
EnvRaises == Env(TRUE, TRUE, None, Zero, <<>>)
EnvNoLoad == Env(FALSE, FALSE, "joy", R(9, 10), <<>>)

HandlerEnvs == {EnvOk, EnvOver, EnvRaises, EnvNoLoad}

\* predict_speech's two classifier calls: <<predict_with_scores, predict>>
SpeechEnvs == {<<EnvOk, EnvOk>>, <<EnvRaises, EnvOk>>, <<EnvRaises, EnvRaises>>,
               <<EnvOver, EnvOver>>}

Heard(api_key, remote_raises, remote_text, ffmpeg_ok, load, local_raises, local_text) ==
    [api_key |-> api_key,
     remote |-> [raises |-> remote_raises, text |-> remote_text],
     ffmpeg_ok |-> ffmpeg_ok,
     local |-> [load |-> load, raises |-> local_raises, text |-> local_text]]

Transcriptions ==
    {Heard(TRUE, FALSE, Hi, TRUE, TRUE, FALSE, Hi),
     Heard(TRUE, FALSE, UhUm, TRUE, TRUE, FALSE, Hi),
     Heard(TRUE, TRUE, <<>>, TRUE, TRUE, FALSE, UmHi),
     Heard(TRUE, FALSE, <<>>, TRUE, TRUE, FALSE, <<>>),
     Heard(FALSE, FALSE, <<>>, FALSE, TRUE, FALSE, Hi),
     Heard(FALSE, FALSE, <<>>, TRUE, FALSE, FALSE, Hi),
     Heard(FALSE, FALSE, <<>>, TRUE, TRUE, TRUE, Hi)}

SpeechInputs ==
    {[audio_empty |-> a, api_key |-> h.api_key, remote |-> h.remote,
      ffmpeg_ok |-> h.ffmpeg_ok, local |-> h.local, files |-> FilesOk,
      scores |-> e[1], single |-> e[2], insert_ok |-> ok] :
        a \in BOOLEAN, h \in Transcriptions, e \in SpeechEnvs, ok \in BOOLEAN}

InitHandlers ==
    /\ now = 0
    /\ emotion_logs = <<>>
    /\ user_memory = <<>>
    /\ result = NoResult
    /\ _classifier = None
    /\ _model = None
    /\ whisper = "module"
    /\ thread = <<>>
    /\ disk = {}

NextHandlers ==
    \/ \E text \in Texts, all_scores \in BOOLEAN, env \in HandlerEnvs, ok \in BOOLEAN :
           /\ Len(emotion_logs) < MaxLogs
           /\ PredictText("u1", text, all_scores, env, ok)
    \/ \E sp \in SpeechInputs :
           /\ Len(emotion_logs) < MaxLogs
           /\ PredictSpeech("u1", sp)

SpecHandlers == InitHandlers /\ [][NextHandlers]_vars

HandlerOps == {"predict_text", "predict_speech"}

\* C5: a predict_text call with empty text is answered 400, a predict_speech call
\* with an empty upload 400, and a predict_speech call whose transcript is empty
\* after the cleanup 422 "transcription empty"; in all three the classifier is
\* neither built nor called, the response carries no emotion, and emotion_logs
\* stays as it was
Rejected(status) ==
    /\ result'.status = status
    /\ result'.pipeline = 0 /\ result'.classify = 0
    /\ _classifier' = _classifier
    /\ "emotion" \notin DOMAIN result'
    /\ result'.insert = "none"
    /\ emotion_logs' = emotion_logs

C5_InputErrors ==
    [][/\ (result'.op = "predict_text" /\ result'.text = <<>>) => Rejected(400)
       /\ (result'.op = "predict_speech" /\ result'.audio_empty) => Rejected(400)
       /\ (result'.op = "predict_speech" /\ ~result'.audio_empty
               /\ Cleanup(result'.raw) = <<>>)
           => /\ Rejected(422)
              /\ result'.detail =
                     "transcription empty; please try again with clearer audio"]_vars

C5_Witness ==
    /\ result.op = "predict_speech" /\ result.status = 422
    /\ result.raw = UhUm
    /\ _classifier = "pipeline"
    /\ emotion_logs = <<>>

\* C7: every log stored by predict_text or predict_speech has a confidence within
\* [0, 1] and a detected_emotion that is present and not empty
C7_StoredLogs ==
    \A i \in 1..Len(emotion_logs) :
        /\ RLe(Zero, emotion_logs[i].confidence)
        /\ RLe(emotion_logs[i].confidence, Unit)
        /\ emotion_logs[i].detected_emotion \notin {None, ""}

\* the log a 200 response stands for
LogOf(r) ==
    [user_id |-> r.user_id,
     input_type |-> IF r.op = "predict_speech" THEN "speech" ELSE None,
     message |-> IF r.op = "predict_speech" THEN r.transcript ELSE r.text,
     detected_emotion |-> r.emotion, confidence |-> r.confidence, timestamp |-> now]

\* a request answered 200 with one outcome of the insert is answered 200 with the
\* other, with the same emotion and confidence
SameAnswer(ok, failed) ==
    (ok.status = 200 \/ failed.status = 200) =>
        /\ ok.status = 200 /\ failed.status = 200
        /\ ok.insert = "ok" /\ failed.insert = "failed"
        /\ failed.emotion = ok.emotion
        /\ failed.confidence = ok.confidence
        /\ failed = [ok EXCEPT !.insert = "failed"]

InsertIgnored ==
    /\ \A text \in Texts, all_scores \in BOOLEAN, env \in HandlerEnvs :
           SameAnswer(predict_text("u1", text, all_scores, env, TRUE).result,
                      predict_text("u1", text, all_scores, env, FALSE).result)
    /\ \A sp \in SpeechInputs :
           SameAnswer(predict_speech("u1", [sp EXCEPT !.insert_ok = TRUE]).result,
                      predict_speech("u1", [sp EXCEPT !.insert_ok = FALSE]).result)

\* C10: in every state a request whose classification succeeds is answered 200 with
\* the same emotion and confidence whether the insert succeeds or fails; a call
\* whose insert fails leaves emotion_logs as it was, and a call whose insert
\* succeeds appends exactly one log, that of the request
C10_InsertSwallowed ==
    /\ []InsertIgnored
    /\ [][(result'.op \in HandlerOps /\ result'.status = 200) =>
             /\ result'.insert \in {"ok", "failed"}
             /\ result'.insert = "failed" => emotion_logs' = emotion_logs
             /\ result'.insert = "ok" =>
                    emotion_logs' = Append(emotion_logs, LogOf(result'))]_vars

C10_Witness ==
    /\ result.op = "predict_speech" /\ result.status = 200
    /\ result.insert = "failed"
    /\ emotion_logs = <<>>

----------------------------------------------------------------------------
(* SpecCleanup: the transcript cleanup of predict_speech over the remote      *)
(* service's transcriptions.  Init draws the transcription of the upload,     *)
(* words of Vocabulary separated by one or two blanks; the one call handles   *)
(* it.                                                                        *)

MaxWords == 4

Uh == <<"u", "h">>
Um == <<"u", "m">>
Huh == <<"h", "u", "h">>
Hello == <<"h", "e", "l", "l", "o">>
There == <<"t", "h", "e", "r", "e">>
Vocabulary == {Uh, Um, Huh, Hello, There}

WordSeqs == UNION {[1..n -> Vocabulary] : n \in 0..MaxWords}

InitCleanup ==
    /\ now = 0
    /\ emotion_logs = <<>>
    /\ user_memory = <<>>
    /\ \E words \in WordSeqs, sep \in {<<" ">>, <<" ", " ">>} :
           result = [op |-> "upload", status |-> 0, heard |-> Join(words, sep)]
    /\ _classifier = None
    /\ _model = None
    /\ whisper = "module"
    /\ thread = <<>>
    /\ disk = {}

NextCleanup ==
    /\ result.op = "upload"
    /\ PredictSpeech("u1",
           [audio_empty |-> FALSE, api_key |-> TRUE,
            remote |-> [raises |-> FALSE, text |-> result.heard],
            ffmpeg_ok |-> FALSE,
            local |-> [load |-> FALSE, raises |-> TRUE, text |-> <<>>],
            files |-> FilesOk,
            scores |-> EnvOk, single |-> EnvOk, insert_ok |-> TRUE])

SpecCleanup == InitCleanup /\ [][NextCleanup]_vars

\* the words that are standalone filler tokens: uh, umm, um, er, ah, like, and
\* you followed by know
FillerWords == {Fillers[i] : i \in 1..6}
FillerAt(words, i) ==
    \/ words[i] \in FillerWords
    \/ /\ words[i] = <<"y", "o", "u">>
       /\ i < Len(words) /\ words[i + 1] = <<"k", "n", "o", "w">>
    \/ /\ words[i] = <<"k", "n", "o", "w">>
       /\ i > 1 /\ words[i - 1] = <<"y", "o", "u">>

\* the words of raw that are no filler tokens, joined by single blanks
WithoutFillers(raw) ==
    LET words == SplitWords(raw)
        kept == {i \in 1..Len(words) : ~FillerAt(words, i)}
    IN  Join([k \in 1..Cardinality(kept) |-> words[Nth(kept, k)]], <<" ">>)

\* what the call made of the transcript: the response's transcript, empty when
\* the call was rejected with 422
Cleaned(r) == IF r.status = 200 THEN r.transcript ELSE <<>>

\* C6: the cleaned transcript is the words of the raw transcript without the
\* standalone filler tokens, joined by single blanks, every other word unchanged
C6_FillersRemoved ==
    (result.op = "predict_speech" /\ result.status \in {200, 422}) =>
        Cleaned(result) = WithoutFillers(result.raw)

----------------------------------------------------------------------------
(* SpecScores: predict_with_scores, called by predict_text with all_scores,   *)
(* over texts of one or more chunks.  Init draws the text, sentences of       *)
(* SentenceLen characters, and the classifier's output for each of its        *)
(* chunks; the one call handles it.                                           *)

MaxSentences == 2
SentenceLen == 200

Sentence == Repeat("a", SentenceLen) \o <<".">>
LongText(n) == Join([i \in 1..n |-> Sentence], <<" ">>)

ScoreValues == {Zero, R(1, 4), R(3, 4)}

\* the classifier's output for one chunk: a score for each label, or nothing
ChunkItems ==
    {<<>>} \cup {<< [label |-> "joy", score |-> j], [label |-> "sadness", score |-> a] >> :
                    j \in ScoreValues, a \in ScoreValues}

InitScores ==
    /\ now = 0
    /\ emotion_logs = <<>>
    /\ user_memory = <<>>
    /\ \E n \in 1..MaxSentences :
           \E items \in [1..Len(_split_text(LongText(n), MaxLen)) -> ChunkItems] :
               result = [op |-> "text", status |-> 0, text |-> LongText(n),
                         items |-> items]
    /\ _classifier = None
    /\ _model = None
    /\ whisper = "module"
    /\ thread = <<>>
    /\ disk = {}

NextScores ==
    /\ result.op = "text"
    /\ PredictText("u1", result.text, TRUE,
                   Env(TRUE, FALSE, "joy", R(9, 10), result.items), TRUE)

SpecScores == InitScores /\ [][NextScores]_vars

\* C8: for a non-empty text predict_with_scores returns a distribution whose values
\* sum to 1 and whose greatest value is that of the returned label
C8_Distribution ==
    (result.op = "predict_text" /\ result.all_scores /\ Strip(result.text) # <<>>) =>
        /\ result.status = 200
        /\ SumValues(result.scores) = Unit
        /\ \E i \in 1..Len(result.scores) :
               /\ result.scores[i][1] = result.emotion
               /\ result.scores[i][2] = result.confidence
               /\ \A j \in 1..Len(result.scores) :
                      RLe(result.scores[j][2], result.scores[i][2])

----------------------------------------------------------------------------
(* SpecFallback: the transcription of predict_speech under every outcome of   *)
(* the remote service, the temp file, ffmpeg, the local model and the         *)
(* removals.                                                                  *)

RemoteAnswers ==
    {[raises |-> TRUE, text |-> <<>>], [raises |-> FALSE, text |-> Hi],
     [raises |-> FALSE, text |-> <<" ">>]}

LocalAnswers ==
    {[load |-> FALSE, raises |-> FALSE, text |-> Hi],
     [load |-> TRUE, raises |-> TRUE, text |-> Hi],
     [load |-> TRUE, raises |-> FALSE, text |-> Hi],
     [load |-> TRUE, raises |-> FALSE, text |-> <<>>]}

\* all goes well, or one thing fails, or a failing ffmpeg leaves its output
FileOutcomes ==
    {FilesOk,
     [FilesOk EXCEPT !.write = FALSE],
     [FilesOk EXCEPT !.remove_in = FALSE],
     [FilesOk EXCEPT !.remove_wav = FALSE],
     [FilesOk EXCEPT !.partial = TRUE],
     [FilesOk EXCEPT !.partial = TRUE, !.remove_wav = FALSE]}

FallbackInputs ==
    {[audio_empty |-> FALSE, api_key |-> k, remote |-> r, ffmpeg_ok |-> f,
      local |-> l, files |-> d, scores |-> EnvOk, single |-> EnvOk,
      insert_ok |-> ok] :
        k \in BOOLEAN, r \in RemoteAnswers, f \in BOOLEAN, l \in LocalAnswers,
        d \in FileOutcomes, ok \in BOOLEAN}

InitFallback ==
    /\ now = 0
    /\ emotion_logs = <<>>
    /\ user_memory = <<>>
    /\ result = NoResult
    /\ _classifier = None
    /\ _model = None
    /\ whisper \in {None, "module"}
    /\ thread = <<>>
    /\ disk = {}

NextFallback ==
    \E u \in Users, sp \in FallbackInputs :
        /\ Len(emotion_logs) < MaxLogs
        /\ PredictSpeech(u, sp)

SpecFallback == InitFallback /\ [][NextFallback]_vars

\* C11: when a predict_speech request has finished, none of the temporary files
\* of its local transcription (the input temp file, the converted .wav) is on disk
C11_NoTempFiles == disk = {}

\* the remote service returned a transcript that is not empty
RemoteGave(sp) == sp.api_key /\ ~sp.remote.raises /\ Strip(sp.remote.text) # <<>>

\* the local path runs to its end: the upload written, converted and transcribed
LocalGave(sp) ==
    /\ sp.files.write /\ sp.ffmpeg_ok
    /\ _model # None \/ (whisper # None /\ sp.local.load)
    /\ ~sp.local.raises

\* C12: in every state and for every request with audio, the remote service is
\* called whenever an API key is configured (without one the remote path counts
\* as failed); when it returned a non-empty transcript the local path is not
\* entered, the local model is neither loaded nor run and no temp file is made;
\* when it did not, the local path is attempted, so that a 422 comes only after
\* it; and a 200 response has used_fallback exactly when the remote service gave
\* nothing and the local path produced the transcript
C12_Fallback ==
    \A sp \in FallbackInputs :
        \E out \in {predict_speech("u1", sp)} :
            /\ out.result.remote = sp.api_key
            /\ RemoteGave(sp) =>
                   /\ ~out.result.local
                   /\ out.mdl = _model
                   /\ out.files = {}
                   /\ out.result.raw = Strip(sp.remote.text)
            /\ ~RemoteGave(sp) =>
                   /\ out.result.local
                   /\ out.result.status = 200 => out.result.raw = Strip(sp.local.text)
            /\ out.result.status = 422 => (RemoteGave(sp) \/ out.result.local)
            /\ out.result.status = 200 =>
                   (out.result.used_fallback <=> (~RemoteGave(sp) /\ LocalGave(sp)))

C12_Witness ==
    /\ result.op = "predict_speech" /\ result.status = 200
    /\ result.remote /\ result.local /\ result.used_fallback
    /\ _model = "whisper"

----------------------------------------------------------------------------
(* SpecSplit: _split_text over short texts.  Init draws the text, of at most  *)
(* MaxTextLen characters of Alphabet, and max_len; the one call splits it.    *)

MaxTextLen == 4
SmallLen == 4

Alphabet == {"a", ".", " ", "\n"}

SplitInputs == UNION {[1..n -> Alphabet] : n \in 0..MaxTextLen}

InitSplit ==
    /\ now = 0
    /\ emotion_logs = <<>>
    /\ user_memory = <<>>
    /\ \E text \in SplitInputs, max_len \in {SmallLen, MaxLen} :
           result = [op |-> "text", status |-> 0, text |-> text, max_len |-> max_len]
    /\ _classifier = None
    /\ _model = None
    /\ whisper = "module"
    /\ thread = <<>>
    /\ disk = {}

\* a call _split_text(text, max_len)
SplitText ==
    /\ result.op = "text"
    /\ result' = [op |-> "_split_text", status |-> 0, text |-> result.text,
                  max_len |-> result.max_len,
                  chunks |-> _split_text(result.text, result.max_len)]
    /\ UNCHANGED <<emotion_logs, user_memory, now, _classifier, _model, whisper, thread, disk>>

SpecSplit == InitSplit /\ [][SplitText]_vars

\* C13: for a text whose trimmed length is less than max_len, _split_text returns
\* exactly one chunk, the trimmed text character for character (for a text of
\* whitespace only: one chunk holding the trimmed, empty, text)
C13_OneChunk ==
    (result.op = "_split_text" /\ Len(Strip(result.text)) < result.max_len) =>
        result.chunks = <<Strip(result.text)>>

----------------------------------------------------------------------------
(* SpecLazyInit: threads of one process inside get_classifier                *)
(* (text_model.py 41-46) and get_model (speech_model.py 28-34), one step per *)
(* statement.  A thread switch can fall between any two statements.          *)

NumThreads == 2
Threads == 1..NumThreads

Idle == [op |-> "none", pc |-> "idle", built |-> FALSE, ret |-> None]

\* the module-level handle a getter caches
Handle(op) == IF op = "get_classifier" THEN _classifier ELSE _model

InitLazyInit ==
    /\ now = 0
    /\ emotion_logs = <<>>
    /\ user_memory = <<>>
    /\ result = NoResult
    /\ _classifier = None
    /\ _model = None
    /\ whisper \in {None, "module"}
    /\ thread = [t \in Threads |-> Idle]
    /\ disk = {}

\* a thread enters a getter
Call(t, op) ==
    /\ thread[t].pc = "idle"
    /\ thread' = [thread EXCEPT ![t] = [Idle EXCEPT !.op = op, !.pc = "check"]]
    /\ UNCHANGED <<emotion_logs, user_memory, now, result, _classifier, _model, whisper, disk>>

\* if _classifier is None: / if _model is None:
Check(t) ==
    /\ thread[t].pc = "check"
    /\ thread' = [thread EXCEPT ![t].pc =
                     IF Handle(thread[t].op) = None THEN "construct" ELSE "return"]
    /\ UNCHANGED <<emotion_logs, user_memory, now, result, _classifier, _model, whisper, disk>>

\* pipeline("text-classification", model=_MODEL_NAME) / whisper.load_model(MODEL_SIZE),
\* which returns the model or raises; get_model raises first when whisper is None
Construct(t, ok) ==
    /\ thread[t].pc = "construct"
    /\ thread' = [thread EXCEPT ![t] =
                     IF thread[t].op = "get_model" /\ whisper = None
                     THEN [@ EXCEPT !.pc = "raised"]
                     ELSE IF ok THEN [@ EXCEPT !.pc = "assign", !.built = TRUE]
                     ELSE [@ EXCEPT !.pc = "raised"]]
    /\ UNCHANGED <<emotion_logs, user_memory, now, result, _classifier, _model, whisper, disk>>

\* _classifier = ... / _model = ...
Assign(t) ==
    /\ thread[t].pc = "assign"
    /\ thread' = [thread EXCEPT ![t].pc = "return"]
    /\ IF thread[t].op = "get_classifier"
       THEN _classifier' = "pipeline" /\ UNCHANGED _model
       ELSE _model' = "whisper" /\ UNCHANGED _classifier
    /\ UNCHANGED <<emotion_logs, user_memory, now, result, whisper, disk>>

\* return _classifier / return _model
Return(t) ==
    /\ thread[t].pc = "return"
    /\ thread' = [thread EXCEPT ![t].pc = "done", ![t].ret = Handle(thread[t].op)]
    /\ UNCHANGED <<emotion_logs, user_memory, now, result, _classifier, _model, whisper, disk>>

NextLazyInit ==
    \E t \in Threads :
        \/ \E op \in {"get_classifier", "get_model"} : Call(t, op)
        \/ Check(t)
        \/ \E ok \in BOOLEAN : Construct(t, ok)
        \/ Assign(t)
        \/ Return(t)

SpecLazyInit == InitLazyInit /\ [][NextLazyInit]_vars

\* the threads whose call of op constructed a model
Builders(op) == {t \in Threads : thread[t].op = op /\ thread[t].built}

\* C4: under any interleaving of first-use calls the model constructor completes
\* at most once per process, for get_classifier and for get_model
C4_LoadedOnce ==
    /\ Cardinality(Builders("get_classifier")) <= 1
    /\ Cardinality(Builders("get_model")) <= 1

====
